---- MODULE Spec2Model ----
(***************************************************************************)
(* Session / quota state machine of the Markdown-to-PDF Telegram bot       *)
(* (src/bot.py).  The four module-level dictionaries of the bot are the    *)
(* state; every Telegram handler is one action.  Handlers run one at a     *)
(* time: main() builds the Application without concurrent updates, so an   *)
(* update is processed to completion before the next one is taken.         *)
(*                                                                         *)
(* The specifications share the actions.  Spec keeps the clock still and   *)
(* draws every kind of content with every outcome of a fetch and of an     *)
(* upload; SpecQuota lets time pass (Tick, and the duration of the POST to *)
(* the PDF service), draws one typed text and every outcome of a           *)
(* conversion; SpecPremium, SpecUrl and SpecAdmin add the premium          *)
(* commands, the URLs the rewriting rules look at and the admin commands.  *)
(* SpecNet splits the handlers at their network calls: pending holds the   *)
(* handlers that wait for a call to return, and run_polling hands out the  *)
(* next update only when there is none.                                    *)
(*                                                                         *)
(* The usage log is kept as the number of its rows and its newest row, the *)
(* PDF service as the number of documents posted and the newest one: an   *)
(* older row is read by /admin_stats only, which changes no state.         *)
(*                                                                         *)
(* Time is counted in ticks.  datetime.now() is the variable now; an hour  *)
(* (timedelta(hours=1)) is TicksPerHour ticks and a calendar date is       *)
(* now \div TicksPerDay.                                                   *)
(***************************************************************************)
EXTENDS Integers, Sequences, FiniteSets, TLC

\* ---------------------------------------------------------------- bounds
TicksPerHour == 2
HoursPerDay == 2
MaxTime == 4
MaxFrags == 2
MaxLog == 2
MaxDelay == 1
MaxSegs == 4

TicksPerDay == TicksPerHour * HoursPerDay

\* ---------------------------------------------------------------- inputs
Users == {1}
\* the users whose events arrive while a call of a user of Users is outstanding
Others == {2}
\* texts a user can type (Telegram never delivers an empty text message)
Texts == {"a", "bb"}
\* bodies of a fetched URL or an uploaded file (may be empty)
Bodies == {"", "a", "bb"}
\* values of the environment variables FREE_DAILY_QUOTA / HOURLY_RATE_LIMIT
DailyQuotas == {1, 2}
HourlyLimits == {1, 2}
\* outcomes of an HTTP request made with the requests library
HttpOutcomes == {"2xx", "Timeout", "ConnectionError", "HTTPError", "Exception"}
\* places where a Telegram API call of convert_to_pdf can raise
RaisePoints == {"none", "loading", "edit_text", "reply_document", "delete", "reply_text"}

VARIABLES
    now,                \* datetime.now()
    FREE_DAILY_QUOTA,   \* configuration, fixed at start-up
    HOURLY_RATE_LIMIT,  \* configuration, fixed at start-up
    user_states,        \* dict user_id -> 'waiting_input'
    user_markdown,      \* dict user_id -> list of str
    message_types,      \* dict user_id -> 'text' | 'url' | 'file'
    user_quota,         \* dict user_id -> quota record
    log_rows,           \* usage log: number of rows log_generation has appended
    log_row,            \* usage log: the newest row
    pdf_posts,          \* number of documents POSTed to the PDF service
    pdf_body,           \* the document POSTed last
    temp_pdfs,          \* number of temporary PDF files on disk
    pending,            \* the handlers that wait for a network call to return
    accepted,           \* history: contents accepted since the session was opened
    last                \* history: the handler that ran last and its outcome

vars == <<now, FREE_DAILY_QUOTA, HOURLY_RATE_LIMIT, user_states, user_markdown,
          message_types, user_quota, log_rows, log_row, pdf_posts, pdf_body, temp_pdfs,
          pending, accepted, last>>

\* ------------------------------------------------------- python dictionaries
Put(d, k, v) == [x \in DOMAIN d \cup {k} |-> IF x = k THEN v ELSE d[x]]
\* a del that leaves the entry in place
Del_nothing(d, k) == d

Del(d, k) == [x \in DOMAIN d \ {k} |-> d[x]]
EmptyDict == [x \in {} |-> 0]

\* ------------------------------------------------------------------- time
Date(t) == t \div TicksPerDay
OneHour == TicksPerHour

\* ------------------------------------------------------------ quota ledger
init_user_quota(uq, u, t) ==
    IF u \notin DOMAIN uq
    THEN Put(uq, u, [daily_count |-> 0, hourly_count |-> 0,
                     last_reset |-> t, hourly_reset |-> t, is_premium |-> FALSE])
    ELSE uq

\* reset_quota_if_needed with the hourly window one tick too long (> for >=)
reset_quota_if_needed_late(uq, u, t) ==
    LET q0 == init_user_quota(uq, u, t)[u]
        q1 == IF Date(t) > Date(q0.last_reset)
              THEN [q0 EXCEPT !.daily_count = 0, !.last_reset = t]
              ELSE q0
        q2 == IF t > q1.hourly_reset + OneHour
              THEN [q1 EXCEPT !.hourly_count = 0, !.hourly_reset = t]
              ELSE q1
    IN  Put(uq, u, q2)

reset_quota_if_needed(uq, u, t) ==
    LET q0 == init_user_quota(uq, u, t)[u]
        q1 == IF Date(t) > Date(q0.last_reset)
              THEN [q0 EXCEPT !.daily_count = 0, !.last_reset = t]
              ELSE q0
        q2 == IF t >= q1.hourly_reset + OneHour
              THEN [q1 EXCEPT !.hourly_count = 0, !.hourly_reset = t]
              ELSE q1
    IN  Put(uq, u, q2)

\* check_quota with the daily check moved in front of the hourly check
check_quota_daily_first(uq, u, hourly_limit, daily_limit) ==
    IF uq[u].is_premium THEN [allowed |-> TRUE, reason |-> ""]
    ELSE IF uq[u].daily_count >= daily_limit THEN [allowed |-> FALSE, reason |-> "daily"]
    ELSE IF uq[u].hourly_count >= hourly_limit THEN [allowed |-> FALSE, reason |-> "hourly"]
    ELSE [allowed |-> TRUE, reason |-> ""]

\* check_quota that compares with > instead of >=
check_quota_off_by_one(uq, u, hourly_limit, daily_limit) ==
    IF uq[u].is_premium THEN [allowed |-> TRUE, reason |-> ""]
    ELSE IF uq[u].hourly_count > hourly_limit THEN [allowed |-> FALSE, reason |-> "hourly"]
    ELSE IF uq[u].daily_count > daily_limit THEN [allowed |-> FALSE, reason |-> "daily"]
    ELSE [allowed |-> TRUE, reason |-> ""]

\* check_quota without the premium exemption
check_quota_no_premium(uq, u, hourly_limit, daily_limit) ==
    IF uq[u].hourly_count >= hourly_limit THEN [allowed |-> FALSE, reason |-> "hourly"]
    ELSE IF uq[u].daily_count >= daily_limit THEN [allowed |-> FALSE, reason |-> "daily"]
    ELSE [allowed |-> TRUE, reason |-> ""]

\* check_quota after its call of reset_quota_if_needed; reason "" | "hourly" | "daily"
check_quota(uq, u, hourly_limit, daily_limit) ==
    IF uq[u].is_premium THEN [allowed |-> TRUE, reason |-> ""]
    ELSE IF uq[u].hourly_count >= hourly_limit THEN [allowed |-> FALSE, reason |-> "hourly"]
    ELSE IF uq[u].daily_count >= daily_limit THEN [allowed |-> FALSE, reason |-> "daily"]
    ELSE [allowed |-> TRUE, reason |-> ""]

\* increment_quota that forgets the hourly counter
increment_quota_daily_only(uq, u) ==
    [uq EXCEPT ![u].daily_count = @ + 1]

increment_quota(uq, u) ==
    [uq EXCEPT ![u].daily_count = @ + 1, ![u].hourly_count = @ + 1]

\* get_quota_status changes state only through reset_quota_if_needed
get_quota_status(uq, u, t) == reset_quota_if_needed(uq, u, t)

\* ------------------------------------------------------------------ events
\* the newest row of a usage log that has no row yet
NoRow == [user_id |-> 0, input_type |-> "", input_length |-> 0, success |-> FALSE,
          error_message |-> "", is_premium |-> FALSE]

Event(op, u, outcome) == [op |-> op, user |-> u, outcome |-> outcome, request |-> <<>>]

\* a URL submission, with the URL handed to fetch_markdown_from_url
UrlEvent(u, outcome, raw_url) ==
    [op |-> "url", user |-> u, outcome |-> outcome, request |-> raw_url]

Init ==
    /\ now = 0
    /\ FREE_DAILY_QUOTA \in DailyQuotas
    /\ HOURLY_RATE_LIMIT \in HourlyLimits
    /\ user_states = EmptyDict
    /\ user_markdown = EmptyDict
    /\ message_types = EmptyDict
    /\ user_quota = EmptyDict
    /\ log_rows = 0
    /\ log_row = NoRow
    /\ pdf_posts = 0
    /\ pdf_body = ""
    /\ temp_pdfs = 0
    /\ pending = <<>>
    /\ accepted = [u \in Users \cup Others |-> <<>>]
    /\ last = Event("init", 0, "")

\* time passes between two updates
Tick ==
    /\ now < MaxTime
    /\ now' = now + 1
    /\ UNCHANGED <<FREE_DAILY_QUOTA, HOURLY_RATE_LIMIT, pending, user_states, user_markdown,
                   message_types, user_quota, log_rows, log_row, pdf_posts,
                   pdf_body, temp_pdfs, accepted, last>>

\* a /start that opens the session and keeps the buffer the user has
start_keeps_buffer(u) ==
    /\ user_states' = Put(user_states, u, "waiting_input")
    /\ user_markdown' = IF u \in DOMAIN user_markdown THEN user_markdown
                        ELSE Put(user_markdown, u, <<>>)
    /\ user_quota' = get_quota_status(init_user_quota(user_quota, u, now), u, now)
    /\ accepted' = [accepted EXCEPT ![u] = <<>>]
    /\ last' = Event("start", u, "ok")
    /\ UNCHANGED <<now, FREE_DAILY_QUOTA, HOURLY_RATE_LIMIT, pending, message_types,
                   log_rows, log_row, pdf_posts, pdf_body, temp_pdfs>>

\* a /start that writes a fresh quota record for the user
start_restores_quota(u) ==
    /\ user_states' = Put(user_states, u, "waiting_input")
    /\ user_markdown' = Put(user_markdown, u, <<>>)
    /\ user_quota' = Put(user_quota, u, init_user_quota(EmptyDict, u, now)[u])
    /\ accepted' = [accepted EXCEPT ![u] = <<>>]
    /\ last' = Event("start", u, "ok")
    /\ UNCHANGED <<now, FREE_DAILY_QUOTA, HOURLY_RATE_LIMIT, pending, message_types,
                   log_rows, log_row, pdf_posts,
                   pdf_body, temp_pdfs>>

\* /start
start(u) ==
    /\ user_states' = Put(user_states, u, "waiting_input")
    /\ user_markdown' = Put(user_markdown, u, <<>>)
    /\ user_quota' = get_quota_status(init_user_quota(user_quota, u, now), u, now)
    /\ accepted' = [accepted EXCEPT ![u] = <<>>]
    /\ last' = Event("start", u, "ok")
    /\ UNCHANGED <<now, FREE_DAILY_QUOTA, HOURLY_RATE_LIMIT, pending, message_types,
                   log_rows, log_row, pdf_posts,
                   pdf_body, temp_pdfs>>

\* /cancel
cancel(u) ==
    /\ user_states' = Del(user_states, u)
    /\ user_markdown' = Del(user_markdown, u)
    /\ accepted' = [accepted EXCEPT ![u] = <<>>]
    /\ last' = Event("cancel", u, "ok")
    /\ UNCHANGED <<now, FREE_DAILY_QUOTA, HOURLY_RATE_LIMIT, pending, message_types,
                   user_quota, log_rows, log_row, pdf_posts, pdf_body, temp_pdfs>>

\* /quota
quota_status(u) ==
    /\ user_quota' = get_quota_status(user_quota, u, now)
    /\ last' = Event("quota", u, "ok")
    /\ UNCHANGED <<now, FREE_DAILY_QUOTA, HOURLY_RATE_LIMIT, pending, user_states,
                   user_markdown, message_types, log_rows, log_row, pdf_posts,
                   pdf_body, temp_pdfs, accepted>>

\* /premium
premium_info(u) ==
    /\ user_quota' = init_user_quota(user_quota, u, now)
    /\ last' = Event("premium", u, IF user_quota'[u].is_premium THEN "already" ELSE "offer")
    /\ UNCHANGED <<now, FREE_DAILY_QUOTA, HOURLY_RATE_LIMIT, pending, user_states, user_markdown,
                   message_types, log_rows, log_row, pdf_posts,
                   pdf_body, temp_pdfs, accepted>>

\* /activate_premium with the commented-out lines in force: an argument given,
\* process_payment_pseudo is called and sets the premium flag
activate_premium_pays(u, has_args) ==
    /\ user_quota' = IF has_args
                     THEN [init_user_quota(user_quota, u, now) EXCEPT ![u].is_premium = TRUE]
                     ELSE user_quota
    /\ last' = Event("activate_premium", u, IF has_args THEN "nothing" ELSE "usage")
    /\ UNCHANGED <<now, FREE_DAILY_QUOTA, HOURLY_RATE_LIMIT, pending, user_states, user_markdown,
                   message_types, log_rows, log_row, pdf_posts,
                   pdf_body, temp_pdfs, accepted>>

\* /activate_premium: the call of process_payment_pseudo is commented out, the
\* handler only answers (with the usage text when no argument was given)
activate_premium(u, has_args) ==
    /\ last' = Event("activate_premium", u, IF has_args THEN "nothing" ELSE "usage")
    /\ UNCHANGED <<now, FREE_DAILY_QUOTA, HOURLY_RATE_LIMIT, pending, user_states, user_markdown,
                   message_types, user_quota, log_rows, log_row, pdf_posts,
                   pdf_body, temp_pdfs,
                   accepted>>

\* process_payment_pseudo: the simulated payment always succeeds
process_payment_pseudo(u) ==
    /\ user_quota' = [init_user_quota(user_quota, u, now) EXCEPT ![u].is_premium = TRUE]
    /\ last' = Event("payment", u, "ok")
    /\ UNCHANGED <<now, FREE_DAILY_QUOTA, HOURLY_RATE_LIMIT, pending, user_states, user_markdown,
                   message_types, log_rows, log_row, pdf_posts,
                   pdf_body, temp_pdfs, accepted>>

\* ------------------------------------------------------------ admin commands
\* the administrator admin_stats falls back to when ADMIN_USER_IDS is not set
DefaultAdmin == 896847229

\* values of the environment variable ADMIN_USER_IDS, read at every call: not
\* set, or a comma-separated list of ids (the empty string is the empty list)
AdminEnvs == {[given |-> FALSE, ids |-> {}]} \cup
             {[given |-> TRUE, ids |-> ids] : ids \in SUBSET {1, 2}}

\* ADMIN_IDS of admin_stats
StatsAdmins(env) == IF env.given THEN env.ids ELSE {DefaultAdmin}
\* ADMIN_IDS of admin_backup
BackupAdmins(env) == IF env.given THEN env.ids ELSE {}

\* the admin check of both handlers: `if ADMIN_IDS and user not in ADMIN_IDS`
Refused(u, ADMIN_IDS) == ADMIN_IDS # {} /\ u \notin ADMIN_IDS

\* /stats
admin_stats(u, env) ==
    /\ last' = Event("stats", u, IF Refused(u, StatsAdmins(env)) THEN "refused" ELSE "sent")
    /\ UNCHANGED <<now, FREE_DAILY_QUOTA, HOURLY_RATE_LIMIT, pending, user_states, user_markdown,
                   message_types, user_quota, log_rows, log_row, pdf_posts,
                   pdf_body, temp_pdfs,
                   accepted>>

\* /backup; made is FALSE when backup_excel returns None
admin_backup(u, env, made) ==
    /\ last' = Event("backup", u,
                     IF Refused(u, BackupAdmins(env)) THEN "refused"
                     ELSE IF made THEN "sent" ELSE "failed")
    /\ UNCHANGED <<now, FREE_DAILY_QUOTA, HOURLY_RATE_LIMIT, pending, user_states, user_markdown,
                   message_types, user_quota, log_rows, log_row, pdf_posts,
                   pdf_body, temp_pdfs,
                   accepted>>

\* ---------------------------------------------------------- network calls
\* Optional[str] returned by fetch_markdown_from_url: None is [some |-> FALSE]
None == [some |-> FALSE, text |-> ""]
Some(t) == [some |-> TRUE, text |-> t]

\* requests.get + raise_for_status: the body on a 2xx answer, None otherwise
fetch_markdown_from_url(outcome, body) ==
    IF outcome = "2xx" THEN Some(body) ELSE None

\* truth value of an Optional[str] in `if markdown_content:`
Truthy(opt) == opt.some /\ opt.text # ""

\* str(e) of an exception that carries no classification of its own
ExcText == "exception"

\* convert_markdown_to_pdf_via_api without raise_for_status: an error status
\* is taken for a PDF
convert_markdown_to_pdf_via_api_unchecked(outcome) ==
    CASE outcome \in {"2xx", "HTTPError"} -> [success |-> TRUE, error_message |-> ""]
      [] outcome = "Timeout" -> [success |-> FALSE, error_message |-> "Timeout"]
      [] outcome = "ConnectionError" -> [success |-> FALSE, error_message |-> "Connection Error"]
      [] OTHER -> [success |-> FALSE, error_message |-> ExcText]

\* requests.post + raise_for_status + write of the PDF: (success, error_message)
convert_markdown_to_pdf_via_api(outcome) ==
    CASE outcome = "2xx" -> [success |-> TRUE, error_message |-> ""]
      [] outcome = "Timeout" -> [success |-> FALSE, error_message |-> "Timeout"]
      [] outcome = "ConnectionError" -> [success |-> FALSE, error_message |-> "Connection Error"]
      [] outcome = "HTTPError" -> [success |-> FALSE, error_message |-> "HTTP Error"]
      [] OTHER -> [success |-> FALSE, error_message |-> ExcText]

\* "\n\n".join(list)
Sep == "\n\n"
RECURSIVE Join(_)
Join(list) ==
    IF list = <<>> THEN ""
    ELSE IF Len(list) = 1 THEN list[1]
    ELSE list[1] \o Sep \o Join(Tail(list))

\* an append that puts the new fragment in front
append_front(list, x) == <<x>> \o list

\* list.append
append(list, x) == Append(list, x)

\* the guard left out: every user passes
Waiting_unchecked(u) == u \in Users

\* the session is open for content: the guard of handle_text and handle_document
Waiting(u) == u \in DOMAIN user_states /\ user_states[u] = "waiting_input"

\* -------------------------------------------------------------------- URLs
\* A URL is the sequence of its parts: scheme, "://", host, then the path as
\* "/" and pieces of names.  A name of several pieces ("x." "github.com") is
\* a name that holds a shorter string, as a repository x.github.com does.
\* urlparse(url).scheme, .hostname and .path of such a URL:
scheme(url) == url[1]
hostname(url) == url[3]
path(url) == SubSeq(url, 4, Len(url))

\* pat in s
contains(s, pat) ==
    \E i \in 1..(Len(s) - Len(pat) + 1) : SubSeq(s, i, i + Len(pat) - 1) = pat

\* s.replace(pat, new): every occurrence, found from the left, not overlapping
RECURSIVE replace(_, _, _)
replace(s, pat, new) ==
    IF Len(s) < Len(pat) THEN s
    ELSE IF SubSeq(s, 1, Len(pat)) = pat
    THEN new \o replace(SubSeq(s, Len(pat) + 1, Len(s)), pat, new)
    ELSE <<s[1]>> \o replace(Tail(s), pat, new)

\* s.rstrip(c)
RECURSIVE rstrip(_, _)
rstrip(s, c) ==
    IF s # <<>> /\ s[Len(s)] = c THEN rstrip(SubSeq(s, 1, Len(s) - 1), c) ELSE s

\* s.split(c): the list of the stretches between two c
RECURSIVE split(_, _)
split(s, c) ==
    IF \A i \in 1..Len(s) : s[i] # c THEN <<s>>
    ELSE LET i == CHOOSE k \in 1..Len(s) :
                     s[k] = c /\ \A j \in 1..(k - 1) : s[j] # c
         IN  <<SubSeq(s, 1, i - 1)>> \o split(SubSeq(s, i + 1, Len(s)), c)

\* c.join(parts)
RECURSIVE join(_, _)
join(parts, c) ==
    IF parts = <<>> THEN <<>>
    ELSE IF Len(parts) = 1 THEN parts[1]
    ELSE parts[1] \o <<c>> \o join(Tail(parts), c)

\* parts.index(x), counted from 0 as Python counts
index(parts, x) ==
    (CHOOSE k \in 1..Len(parts) : parts[k] = x /\ \A j \in 1..(k - 1) : parts[j] # x) - 1

BlobInPath == <<"/", "blob", "/">>
SrcInPath == <<"/", "src", "/">>

convert_to_raw_url(url) ==
    IF hostname(url) = "github.com" /\ contains(path(url), BlobInPath)
    THEN replace(replace(url, <<"github.com">>, <<"raw.githubusercontent.com">>),
                 BlobInPath, <<"/">>)
    ELSE IF hostname(url) = "gist.github.com"
    THEN rstrip(url, "/") \o <<"/", "raw">>
    ELSE IF hostname(url) = "gitlab.com" /\ contains(path(url), BlobInPath)
    THEN replace(url, BlobInPath, <<"/", "raw", "/">>)
    ELSE IF hostname(url) = "bitbucket.org" /\ contains(path(url), SrcInPath)
    THEN LET path_parts == split(path(url), "/")
             src_index == index(path_parts, <<"src">>)
         IN  IF Len(path_parts) > 4 /\ Len(path_parts) > src_index + 1
             THEN <<scheme(url), "://", hostname(url)>>
                  \o join([path_parts EXCEPT ![src_index + 1] = <<"raw">>], "/")
             ELSE url
    ELSE url

\* a URL no rule rewrites
PlainUrl == <<"https", "://", "example.com", "/", "a">>

\* handle_text from the return of requests.get on: the type of the message is
\* recorded, a body that was read is appended to the buffer
fetch_returns(u, raw_url, outcome, body) ==
    LET markdown_content == fetch_markdown_from_url(outcome, body)
        stored == Truthy(markdown_content) /\ u \in DOMAIN user_markdown
    IN  /\ stored => Len(user_markdown[u]) < MaxFrags
        /\ message_types' = Put(message_types, u, "url")
        /\ user_markdown' = IF stored
                            THEN [user_markdown EXCEPT ![u] = append(@, markdown_content.text)]
                            ELSE user_markdown
        /\ accepted' = IF stored
                       THEN [accepted EXCEPT ![u] = Append(@, markdown_content.text)]
                       ELSE accepted
        /\ last' = UrlEvent(u, IF stored THEN "stored" ELSE "failed", raw_url)
        /\ UNCHANGED <<now, FREE_DAILY_QUOTA, HOURLY_RATE_LIMIT, user_states,
                       user_quota, log_rows, log_row, pdf_posts,
                       pdf_body, temp_pdfs>>

\* text message that is not a command
handle_text(u, text, is_url, outcome, body) ==
    IF ~Waiting(u)
    THEN /\ last' = Event("text", u, "rejected")
         /\ UNCHANGED <<now, FREE_DAILY_QUOTA, HOURLY_RATE_LIMIT, pending, user_states,
                        user_markdown, message_types, user_quota, log_rows, log_row, pdf_posts,
                        pdf_body, temp_pdfs, accepted>>
    ELSE IF is_url
    THEN /\ fetch_returns(u, convert_to_raw_url(text), outcome, body)
         /\ UNCHANGED pending
    ELSE LET list == IF u \in DOMAIN user_markdown THEN user_markdown[u] ELSE <<>>
         IN  /\ Len(list) < MaxFrags
             /\ user_markdown' = Put(user_markdown, u, append(list, text))
             /\ message_types' = Put(message_types, u, "text")
             /\ accepted' = [accepted EXCEPT ![u] = Append(@, text)]
             /\ last' = Event("text", u, "stored")
             /\ UNCHANGED <<now, FREE_DAILY_QUOTA, HOURLY_RATE_LIMIT, pending, user_states,
                            user_quota, log_rows, log_row, pdf_posts,
                            pdf_body, temp_pdfs>>

\* handle_document from the return of get_file and download_to_drive on: a
\* file that was read is appended to the buffer, which is created when the
\* user has none
download_returns(u, downloaded, content) ==
    IF ~downloaded
    THEN /\ last' = Event("file", u, "failed")
         /\ UNCHANGED <<now, FREE_DAILY_QUOTA, HOURLY_RATE_LIMIT, user_states,
                        user_markdown, message_types, user_quota, log_rows, log_row, pdf_posts,
                        pdf_body, temp_pdfs, accepted>>
    ELSE LET list == IF u \in DOMAIN user_markdown THEN user_markdown[u] ELSE <<>>
         IN  /\ Len(list) < MaxFrags
             /\ user_markdown' = Put(user_markdown, u, append(list, content))
             /\ message_types' = Put(message_types, u, "file")
             /\ accepted' = [accepted EXCEPT ![u] = Append(@, content)]
             /\ last' = Event("file", u, "stored")
             /\ UNCHANGED <<now, FREE_DAILY_QUOTA, HOURLY_RATE_LIMIT, user_states,
                            user_quota, log_rows, log_row, pdf_posts,
                            pdf_body, temp_pdfs>>

\* uploaded file; downloaded is FALSE when get_file, the download or the
\* utf-8 decoding raises
handle_document(u, ext_ok, downloaded, content) ==
    IF ~Waiting(u)
    THEN /\ last' = Event("file", u, "rejected")
         /\ UNCHANGED <<now, FREE_DAILY_QUOTA, HOURLY_RATE_LIMIT, pending, user_states,
                        user_markdown, message_types, user_quota, log_rows, log_row, pdf_posts,
                        pdf_body, temp_pdfs, accepted>>
    ELSE IF ~ext_ok
    THEN /\ last' = Event("file", u, "bad_extension")
         /\ UNCHANGED <<now, FREE_DAILY_QUOTA, HOURLY_RATE_LIMIT, pending, user_states,
                        user_markdown, message_types, user_quota, log_rows, log_row, pdf_posts,
                        pdf_body, temp_pdfs, accepted>>
    ELSE /\ download_returns(u, downloaded, content)
         /\ UNCHANGED pending

\* /status
status(u) ==
    /\ user_quota' = IF u \notin DOMAIN user_markdown \/ user_markdown[u] = <<>>
                     THEN user_quota
                     ELSE get_quota_status(user_quota, u, now)
    /\ last' = Event("status", u, "ok")
    /\ UNCHANGED <<now, FREE_DAILY_QUOTA, HOURLY_RATE_LIMIT, pending, user_states,
                   user_markdown, message_types, log_rows, log_row, pdf_posts,
                   pdf_body, temp_pdfs, accepted>>

\* the row convert_to_pdf hands to log_generation in its finally block
UsageRecord(u, mt, uq, full_markdown, success, error_message) ==
    [user_id |-> u,
     input_type |-> IF u \in DOMAIN mt THEN mt[u] ELSE "unknown",
     input_length |-> Len(full_markdown),
     success |-> success,
     error_message |-> error_message,
     is_premium |-> IF u \in DOMAIN uq THEN uq[u].is_premium ELSE FALSE]

\* the Telegram calls of convert_to_pdf that follow a backend answer
RaisesAfter(success) ==
    IF success THEN {"none", "reply_document", "delete", "reply_text"}
    ELSE {"none", "edit_text"}

\* the answers of the PDF service paired with the Telegram call that raises:
\* the loading message is sent before the POST, so its failure is paired with
\* one answer only
ConvertInputs ==
    {<<"2xx", "loading">>} \cup
    UNION {{<<backend, raises>> : raises \in RaisesAfter(backend = "2xx")} :
           backend \in HttpOutcomes}

\* the handler returns before the POST: no answer, raise or duration is drawn
NotReached(backend, raises, d) == backend = "2xx" /\ raises = "none" /\ d = 0

\* tempfile.NamedTemporaryFile(delete=False): one more file on disk
NamedTemporaryFile(files) == files + 1

\* a clean-up placed at the end of the try block: skipped when a call raises
cleanup_unless_raised(files, raises) == IF raises = "none" THEN files - 1 ELSE files

\* the clean-up of the finally block: pdf_path is set and the file exists, it
\* is unlinked whatever was raised
cleanup(files, raises) == files - 1

\* convert_to_pdf from its try block on, seen when requests.post returns; uq
\* is the quota ledger as it stands then, d the time the POST took.  The PDF is written to a
\* temporary file and sent, the quota is counted, the session is cleared, and
\* the finally block logs the attempt and removes the file.
post_returns(u, uq, full_markdown, backend, raises, d) ==
    LET api == convert_markdown_to_pdf_via_api(backend)
        delivered == api.success /\ raises # "reply_document"
        incremented == IF delivered THEN increment_quota(uq, u) ELSE uq
        shown == IF delivered /\ raises # "delete"
                 THEN get_quota_status(incremented, u, now + d)
                 ELSE incremented
        cleared == delivered /\ raises = "none"
        error_message == IF raises = "none" THEN api.error_message ELSE ExcText
    IN  /\ raises \in RaisesAfter(api.success)
        /\ log_rows < MaxLog
        /\ now + d <= MaxTime
        /\ now' = now + d
        /\ last' = Event("convert", u,
                         IF ~api.success THEN "backend_failed"
                         ELSE IF ~delivered THEN "not_delivered"
                         ELSE IF ~cleared THEN "delivered_raised"
                         ELSE "done")
        /\ pdf_posts' = pdf_posts + 1
        /\ pdf_body' = full_markdown
        /\ temp_pdfs' = cleanup(NamedTemporaryFile(temp_pdfs), raises)
        /\ user_quota' = shown
        /\ user_states' = IF cleared THEN Del(user_states, u) ELSE user_states
        /\ user_markdown' = IF cleared THEN Del(user_markdown, u) ELSE user_markdown
        /\ accepted' = IF cleared THEN [accepted EXCEPT ![u] = <<>>] ELSE accepted
        /\ log_rows' = log_rows + 1
        /\ log_row' = UsageRecord(u, message_types, shown, full_markdown,
                                  api.success, error_message)
        /\ UNCHANGED <<FREE_DAILY_QUOTA, HOURLY_RATE_LIMIT, message_types>>

\* /convert.  backend is the outcome of the POST to the PDF service, raises
\* the Telegram call that raises (if any), d the time the POST takes.
convert_to_pdf(u, backend, raises, d) ==
    IF u \notin DOMAIN user_states \/ u \notin DOMAIN user_markdown
    THEN /\ NotReached(backend, raises, d)
         /\ last' = Event("convert", u, "no_session")
         /\ UNCHANGED <<now, FREE_DAILY_QUOTA, HOURLY_RATE_LIMIT, pending, user_states,
                        user_markdown, message_types, user_quota, log_rows, log_row, pdf_posts,
                        pdf_body, temp_pdfs, accepted>>
    ELSE IF user_markdown[u] = <<>>
    THEN /\ NotReached(backend, raises, d)
         /\ last' = Event("convert", u, "empty")
         /\ UNCHANGED <<now, FREE_DAILY_QUOTA, HOURLY_RATE_LIMIT, pending, user_states,
                        user_markdown, message_types, user_quota, log_rows, log_row, pdf_posts,
                        pdf_body, temp_pdfs, accepted>>
    ELSE LET checked == reset_quota_if_needed(user_quota, u, now)
             quota == check_quota(checked, u, HOURLY_RATE_LIMIT, FREE_DAILY_QUOTA)
             full_markdown == Join(user_markdown[u])
         IN  IF ~quota.allowed
             THEN /\ NotReached(backend, raises, d)
                  /\ user_quota' = checked
                  /\ last' = Event("convert", u, quota.reason)
                  /\ UNCHANGED <<now, FREE_DAILY_QUOTA, HOURLY_RATE_LIMIT, pending, user_states,
                                 user_markdown, message_types, log_rows, log_row, pdf_posts,
                                 pdf_body, temp_pdfs, accepted>>
             ELSE IF raises = "loading"
             THEN /\ d = 0
                  /\ user_quota' = checked
                  /\ last' = Event("convert", u, "raised")
                  /\ UNCHANGED <<now, FREE_DAILY_QUOTA, HOURLY_RATE_LIMIT, pending, user_states,
                                 user_markdown, message_types, log_rows, log_row, pdf_posts,
                                 pdf_body, temp_pdfs, accepted>>
             ELSE /\ post_returns(u, checked, full_markdown, backend, raises, d)
                  /\ UNCHANGED pending

\* what a fetch can return: a body on a 2xx answer, nothing to read otherwise
FetchInputs ==
    {<<"2xx", body>> : body \in Bodies} \cup
    {<<outcome, "">> : outcome \in HttpOutcomes \ {"2xx"}}

\* what an upload can be: <<ext_ok, downloaded, content>>
DocumentInputs ==
    {<<TRUE, TRUE, content>> : content \in Texts} \cup
    {<<FALSE, TRUE, "">>, <<TRUE, FALSE, "">>}

\* the conversions of Spec: delivered, answered but not delivered, timed out
SessionConvertInputs ==
    {<<"2xx", "none">>, <<"2xx", "reply_document">>, <<"Timeout", "none">>}

\* Events of one user while the clock stands still (everything happens within
\* one tick): all kinds of content, all outcomes of a fetch and of an upload.
Next ==
    \/ \E u \in Users : start(u)
    \/ \E u \in Users : cancel(u)
    \/ \E u \in Users : status(u)
    \/ \E u \in Users, text \in Texts : handle_text(u, text, FALSE, "2xx", "")
    \/ \E u \in Users, inp \in FetchInputs :
          handle_text(u, PlainUrl, TRUE, inp[1], inp[2])
    \/ \E u \in Users, inp \in DocumentInputs :
          handle_document(u, inp[1], inp[2], inp[3])
    \/ \E u \in Users, inp \in SessionConvertInputs :
          convert_to_pdf(u, inp[1], inp[2], 0)

Spec == Init /\ [][Next]_vars

\* Events of one user while time passes: one kind of content, all outcomes of
\* the conversion.
NextQuota ==
    \/ Tick
    \/ \E u \in Users : start(u)
    \/ \E u \in Users : cancel(u)
    \/ \E u \in Users : quota_status(u)
    \/ \E u \in Users : handle_text(u, "a", FALSE, "2xx", "")
    \/ \E u \in Users, inp \in ConvertInputs, d \in 0..MaxDelay :
          convert_to_pdf(u, inp[1], inp[2], d)

SpecQuota == Init /\ [][NextQuota]_vars

\* The premium path as the functions define it: the events of SpecQuota with
\* the conversions of Spec, /premium, /activate_premium, and
\* process_payment_pseudo called as the commented-out lines of
\* activate_premium would call it.
NextPremium ==
    \/ Tick
    \/ \E u \in Users : start(u)
    \/ \E u \in Users : cancel(u)
    \/ \E u \in Users : quota_status(u)
    \/ \E u \in Users : premium_info(u)
    \/ \E u \in Users, has_args \in BOOLEAN : activate_premium(u, has_args)
    \/ \E u \in Users : process_payment_pseudo(u)
    \/ \E u \in Users : handle_text(u, "a", FALSE, "2xx", "")
    \/ \E u \in Users, inp \in SessionConvertInputs, d \in 0..MaxDelay :
          convert_to_pdf(u, inp[1], inp[2], d)

SpecPremium == Init /\ [][NextPremium]_vars

\* the hosts the rules of convert_to_raw_url name, and one they do not
Hosts == {"github.com", "gist.github.com", "gitlab.com", "bitbucket.org", "example.com"}
\* names of a path: plain ones, the ones the rules look for, and one that
\* holds the string github.com
Names == {<<"a">>, <<"blob">>, <<"src">>, <<"x.", "github.com">>}

\* the path made of the names in list, with a trailing slash or without
RECURSIVE PathOf(_, _)
PathOf(list, slash) ==
    IF list = <<>> THEN (IF slash THEN <<"/">> ELSE <<>>)
    ELSE <<"/">> \o list[1] \o PathOf(Tail(list), slash)

\* the URLs a user can send
Urls ==
    {<<"https", "://", host>> \o PathOf(list, slash) :
        host \in Hosts,
        list \in UNION {[1..k -> Names] : k \in 0..MaxSegs},
        slash \in BOOLEAN}

\* The URL rewriting on its own: a user's first submission is a URL, fetched
\* with success or not.
NextUrl ==
    \/ \E u \in Users : start(u)
    \/ \E u \in Users : cancel(u)
    \/ \E u \in Users, url \in Urls, inp \in {<<"2xx", "a">>, <<"Timeout", "">>} :
          /\ u \notin DOMAIN message_types
          /\ handle_text(u, url, TRUE, inp[1], inp[2])

SpecUrl == Init /\ [][NextUrl]_vars

\* The admin commands among the events of a session, under every value of
\* ADMIN_USER_IDS.
NextAdmin ==
    \/ \E u \in Users : start(u)
    \/ \E u \in Users : cancel(u)
    \/ \E u \in Users, text \in Texts : handle_text(u, text, FALSE, "2xx", "")
    \/ \E u \in Users, inp \in SessionConvertInputs :
          convert_to_pdf(u, inp[1], inp[2], 0)
    \/ \E u \in Users, env \in AdminEnvs : admin_stats(u, env)
    \/ \E u \in Users, env \in AdminEnvs, made \in BOOLEAN : admin_backup(u, env, made)

SpecAdmin == Init /\ [][NextAdmin]_vars

\* Every kind of submission while time passes: typed text, a URL that is
\* fetched or not, a file, and conversions that deliver the PDF.
NextFrame ==
    \/ Tick
    \/ \E u \in Users : start(u)
    \/ \E u \in Users : cancel(u)
    \/ \E u \in Users : handle_text(u, "a", FALSE, "2xx", "")
    \/ \E u \in Users, inp \in {<<"2xx", "bb">>, <<"Timeout", "">>} :
          handle_text(u, PlainUrl, TRUE, inp[1], inp[2])
    \/ \E u \in Users : handle_document(u, TRUE, TRUE, "bb")
    \/ \E u \in Users : convert_to_pdf(u, "2xx", "none", 0)

SpecFrame == Init /\ [][NextFrame]_vars

\* The commands a user can send, as main() registers them, while time passes:
\* process_payment_pseudo is called by none of them.
NextCommands ==
    \/ Tick
    \/ \E u \in Users : start(u)
    \/ \E u \in Users : cancel(u)
    \/ \E u \in Users : status(u)
    \/ \E u \in Users : quota_status(u)
    \/ \E u \in Users : premium_info(u)
    \/ \E u \in Users, has_args \in BOOLEAN : activate_premium(u, has_args)
    \/ \E u \in Users : handle_text(u, "a", FALSE, "2xx", "")
    \/ \E u \in Users, inp \in SessionConvertInputs, d \in 0..MaxDelay :
          convert_to_pdf(u, inp[1], inp[2], d)

SpecCommands == Init /\ [][NextCommands]_vars

\* ------------------------------------------------------------- scheduling
MaxPending == 2

\* main() builds the Application without concurrent_updates and registers
\* every handler blocking; requests.get and requests.post do not yield to the
\* event loop.  An update is handed to its handler when no handler is running.
\* an Application built with concurrent_updates(True) and calls that yield
run_polling_concurrent(calls) == Len(calls) < MaxPending

run_polling(calls) == calls = <<>>

\* a handler that has reached its network call
Call(op, u, raw_url, full_markdown) ==
    [op |-> op, user |-> u, raw_url |-> raw_url, full_markdown |-> full_markdown]

\* the call at place i has returned
Returned(calls, i) == SubSeq(calls, 1, i - 1) \o SubSeq(calls, i + 1, Len(calls))

\* a handler that makes no network call, or returns before it would
Handler(A) == run_polling(pending) /\ A /\ UNCHANGED pending

\* handle_text of a URL, up to requests.get
handle_text_fetches(u, text) ==
    /\ run_polling(pending)
    /\ Waiting(u)
    /\ pending' = Append(pending, Call("fetch", u, convert_to_raw_url(text), ""))
    /\ UNCHANGED <<now, FREE_DAILY_QUOTA, HOURLY_RATE_LIMIT, user_states, user_markdown,
                   message_types, user_quota, log_rows, log_row, pdf_posts, pdf_body,
                   temp_pdfs, accepted, last>>

\* requests.get returns to handle_text
fetch_completes(i, outcome, body) ==
    /\ pending[i].op = "fetch"
    /\ fetch_returns(pending[i].user, pending[i].raw_url, outcome, body)
    /\ pending' = Returned(pending, i)

\* handle_document of a .md or .txt file, up to the download
handle_document_downloads(u) ==
    /\ run_polling(pending)
    /\ Waiting(u)
    /\ pending' = Append(pending, Call("download", u, <<>>, ""))
    /\ UNCHANGED <<now, FREE_DAILY_QUOTA, HOURLY_RATE_LIMIT, user_states, user_markdown,
                   message_types, user_quota, log_rows, log_row, pdf_posts, pdf_body,
                   temp_pdfs, accepted, last>>

\* get_file and download_to_drive return to handle_document
download_completes(i, downloaded, content) ==
    /\ pending[i].op = "download"
    /\ download_returns(pending[i].user, downloaded, content)
    /\ pending' = Returned(pending, i)

\* convert_to_pdf reaches requests.post: the user has a session and a buffer
\* that is not empty, and check_quota allows the conversion
Posts(u) ==
    /\ u \in DOMAIN user_states
    /\ u \in DOMAIN user_markdown
    /\ user_markdown[u] # <<>>
    /\ check_quota(reset_quota_if_needed(user_quota, u, now), u,
                   HOURLY_RATE_LIMIT, FREE_DAILY_QUOTA).allowed

\* convert_to_pdf up to its try block: the checks, the joined document and the
\* loading message
convert_to_pdf_posts(u) ==
    /\ run_polling(pending)
    /\ Posts(u)
    /\ user_quota' = reset_quota_if_needed(user_quota, u, now)
    /\ pending' = Append(pending, Call("post", u, <<>>, Join(user_markdown[u])))
    /\ UNCHANGED <<now, FREE_DAILY_QUOTA, HOURLY_RATE_LIMIT, user_states, user_markdown,
                   message_types, log_rows, log_row, pdf_posts, pdf_body,
                   temp_pdfs, accepted, last>>

\* requests.post returns to convert_to_pdf
post_completes(i, backend, raises) ==
    /\ pending[i].op = "post"
    /\ post_returns(pending[i].user, user_quota, pending[i].full_markdown, backend, raises, 0)
    /\ pending' = Returned(pending, i)

\* The handlers split at their network calls, for a user who converts and
\* another who sends events meanwhile.
NextNet ==
    \/ \E u \in Users \cup Others : Handler(start(u))
    \/ \E u \in Users \cup Others : Handler(cancel(u))
    \/ \E u \in Users : Handler(handle_text(u, "a", FALSE, "2xx", ""))
    \/ \E u \in Users : Handler(~Posts(u) /\ convert_to_pdf(u, "2xx", "none", 0))
    \/ \E u \in Users : handle_text_fetches(u, PlainUrl)
    \/ \E i \in DOMAIN pending, inp \in {<<"2xx", "bb">>, <<"Timeout", "">>} :
          fetch_completes(i, inp[1], inp[2])
    \/ \E u \in Users : handle_document_downloads(u)
    \/ \E i \in DOMAIN pending, inp \in {<<TRUE, "bb">>, <<FALSE, "">>} :
          download_completes(i, inp[1], inp[2])
    \/ \E u \in Users : convert_to_pdf_posts(u)
    \/ \E i \in DOMAIN pending, inp \in SessionConvertInputs :
          post_completes(i, inp[1], inp[2])

SpecNet == Init /\ [][NextNet]_vars

\* ------------------------------------------------------------------ claims
\* a /convert of user u, whatever the PDF service and Telegram do
ConvertStep(u) ==
    /\ last'.op = "convert"
    /\ now' - now \in 0..MaxDelay
    /\ \E inp \in ConvertInputs : convert_to_pdf(u, inp[1], inp[2], now' - now)

HasFragments(u) ==
    /\ u \in DOMAIN user_states
    /\ u \in DOMAIN user_markdown
    /\ user_markdown[u] # <<>>

\* the counters a handler sees once the pending window resets are applied
HourlyAfterReset(u) ==
    IF u \notin DOMAIN user_quota THEN 0
    ELSE IF now >= user_quota[u].hourly_reset + OneHour THEN 0
    ELSE user_quota[u].hourly_count

DailyAfterReset(u) ==
    IF u \notin DOMAIN user_quota THEN 0
    ELSE IF Date(now) > Date(user_quota[u].last_reset) THEN 0
    ELSE user_quota[u].daily_count

NonPremium(u) == u \notin DOMAIN user_quota \/ ~user_quota[u].is_premium

QuotaExhausted(u) ==
    /\ NonPremium(u)
    /\ \/ HourlyAfterReset(u) >= HOURLY_RATE_LIMIT
       \/ DailyAfterReset(u) >= FREE_DAILY_QUOTA

\* C1: a non-premium user whose hourly counter, after the pending window
\* reset, has reached the hourly limit is refused by check_quota with the
\* hourly reason whatever the daily counter is, also when the daily limit
\* is reached too; nothing is posted and nothing is logged.
C1_HourlyCheckFirst ==
    [][\A u \in Users :
          (HasFragments(u) /\ NonPremium(u)
             /\ HourlyAfterReset(u) >= HOURLY_RATE_LIMIT /\ ConvertStep(u))
          => /\ last'.outcome = "hourly"
             /\ UNCHANGED <<log_rows, log_row, pdf_posts, pdf_body, temp_pdfs>>]_vars

\* C1 witness: a convert was refused for the hourly limit while the daily
\* limit was reached as well.
C1_Witness ==
    \E u \in DOMAIN user_quota :
        /\ last = Event("convert", u, "hourly")
        /\ user_quota[u].hourly_count >= HOURLY_RATE_LIMIT
        /\ user_quota[u].daily_count >= FREE_DAILY_QUOTA

C3_ResetAtBoundary ==
    [][\A u \in Users :
          (quota_status(u) /\ u \in DOMAIN user_quota) =>
            LET q == user_quota[u]
                r == user_quota'[u]
            IN  /\ IF Date(now) > Date(q.last_reset)
                   THEN r.daily_count = 0 /\ r.last_reset = now
                   ELSE r.daily_count = q.daily_count /\ r.last_reset = q.last_reset
                /\ IF now >= q.hourly_reset + OneHour
                   THEN r.hourly_count = 0 /\ r.hourly_reset = now
                   ELSE r.hourly_count = q.hourly_count /\ r.hourly_reset = q.hourly_reset
                /\ (now = q.hourly_reset + OneHour - 1 => r.hourly_count = q.hourly_count)
                /\ (now = q.hourly_reset + OneHour => r.hourly_reset = now)]_vars

\* C3 witness: /quota ran exactly one hour after the hourly window opened and
\* zeroed the hourly counter of a user who had converted, on the same day.
C3_Witness ==
    \E u \in DOMAIN user_quota :
        /\ last = Event("quota", u, "ok")
        /\ user_quota[u].hourly_reset = now
        /\ user_quota[u].last_reset = now - OneHour
        /\ user_quota[u].hourly_count = 0
        /\ user_quota[u].daily_count > 0

\* C4: convert tests (1) no session, (2) no fragments, (3) quota, in this
\* order; a rejection posts nothing to the PDF service, logs nothing,
\* increments no counter and leaves session state and fragments as they are.
C4_RejectionsInOrder ==
    [][\A u \in Users :
          ConvertStep(u) =>
            IF u \notin DOMAIN user_states \/ u \notin DOMAIN user_markdown
            THEN /\ last'.outcome = "no_session"
                 /\ UNCHANGED <<user_states, user_markdown, message_types, user_quota,
                                log_rows, log_row, pdf_posts, pdf_body, temp_pdfs>>
            ELSE IF user_markdown[u] = <<>>
            THEN /\ last'.outcome = "empty"
                 /\ UNCHANGED <<user_states, user_markdown, message_types, user_quota,
                                log_rows, log_row, pdf_posts, pdf_body, temp_pdfs>>
            ELSE IF QuotaExhausted(u)
            THEN /\ last'.outcome \in {"hourly", "daily"}
                 /\ UNCHANGED <<user_states, user_markdown, message_types,
                                log_rows, log_row, pdf_posts,
                                pdf_body, temp_pdfs>>
                 /\ user_quota'[u].daily_count = DailyAfterReset(u)
                 /\ user_quota'[u].hourly_count = HourlyAfterReset(u)
            ELSE last'.outcome \notin {"no_session", "empty", "hourly", "daily"}]_vars

\* C4 witness: a convert on an open session without fragments was rejected as
\* empty although the user's quota was used up.
C4_Witness ==
    \E u \in DOMAIN user_quota :
        /\ last = Event("convert", u, "empty")
        /\ Waiting(u)
        /\ user_quota[u].hourly_count >= HOURLY_RATE_LIMIT

\* the text convert_markdown_to_pdf_via_api returns for a failed POST
FailureText(backend) ==
    CASE backend = "Timeout" -> "Timeout"
      [] backend = "ConnectionError" -> "Connection Error"
      [] backend = "HTTPError" -> "HTTP Error"
      [] OTHER -> ExcText

\* a /convert of user u whose POST to the PDF service fails
BackendFails(u) ==
    /\ last'.op = "convert"
    /\ now' - now \in 0..MaxDelay
    /\ \E backend \in HttpOutcomes \ {"2xx"}, raises \in RaisesAfter(FALSE) :
          convert_to_pdf(u, backend, raises, now' - now)

\* C5: when the POST to the PDF service fails, the session stays
\* waiting_input with its fragments as they were, no counter is incremented,
\* and exactly one row is logged, with success = FALSE and a non-empty error
\* text (the classification of the failure unless a reply raised); the
\* fragments are still there for the next convert.
C5_BackendFailureKeepsSession ==
    [][\A u \in Users :
          (HasFragments(u) /\ ~QuotaExhausted(u) /\ BackendFails(u))
          => /\ Waiting(u)'
             /\ user_markdown' = user_markdown
             /\ user_quota'[u].daily_count = DailyAfterReset(u)
             /\ user_quota'[u].hourly_count = HourlyAfterReset(u)
             /\ log_rows' = log_rows + 1
             /\ ~log_row'.success
             /\ log_row'.error_message # ""
             /\ pdf_posts' = pdf_posts + 1
             /\ pdf_body' = Join(user_markdown[u])
             /\ \A backend \in HttpOutcomes \ {"2xx"} :
                   convert_to_pdf(u, backend, "none", now' - now)
                   => log_row'.error_message = FailureText(backend)]_vars

\* C5 witness: the second convert of a session timed out like the first (no
\* counter has moved), and the fragments it posted are still in the session.
C5_Witness ==
    \E u \in DOMAIN user_markdown :
        /\ Waiting(u)
        /\ last = Event("convert", u, "backend_failed")
        /\ log_rows = 2
        /\ ~log_row.success /\ log_row.error_message = "Timeout"
        /\ user_quota[u].daily_count = 0 /\ user_quota[u].last_reset = now
        /\ user_markdown[u] # <<>>
        /\ pdf_body = Join(user_markdown[u])

\* the fragments joined from the left, one blank line between two of them
RECURSIVE JoinL(_)
JoinL(list) ==
    IF Len(list) = 0 THEN ""
    ELSE IF Len(list) = 1 THEN list[1]
    ELSE JoinL(SubSeq(list, 1, Len(list) - 1)) \o "\n\n" \o list[Len(list)]

\* a /convert of user u that the PDF service answers with a PDF
BackendSucceeds(u) ==
    /\ last'.op = "convert"
    /\ now' - now \in 0..MaxDelay
    /\ \E raises \in RaisesAfter(TRUE) : convert_to_pdf(u, "2xx", raises, now' - now)

\* C6 (as claimed): a convert of a session with fragments and free quota that
\* the PDF service answers with a PDF logs exactly one row, with success =
\* TRUE and the length of the joined fragments, and leaves the user without
\* session and without fragment buffer.
C6_SuccessResetsSession ==
    [][\A u \in Users :
          (HasFragments(u) /\ ~QuotaExhausted(u) /\ BackendSucceeds(u))
          => /\ log_rows' = log_rows + 1
             /\ log_row'.success
             /\ log_row'.input_length = Len(JoinL(user_markdown[u]))
             /\ u \notin DOMAIN user_states'
             /\ u \notin DOMAIN user_markdown']_vars

\* C7: the fragment buffer of an open session is the sequence of the contents
\* accepted since the session was opened, in the order of their submission,
\* and every document posted to the PDF service is that sequence joined in
\* that order with a blank line between two fragments.
C7_FragmentsInSubmissionOrder ==
    [][\A u \in Users :
          /\ u \in DOMAIN user_markdown' => user_markdown'[u] = accepted'[u]
          /\ (pdf_posts' # pdf_posts /\ last'.user = u)
             => pdf_body' = JoinL(accepted[u])]_vars

\* C7 witness: two different fragments were accepted and posted, the first
\* submitted first in the document.
C7_Witness ==
    \E u \in DOMAIN user_markdown :
        /\ Len(user_markdown[u]) = 2
        /\ user_markdown[u][1] = "bb" /\ user_markdown[u][2] = "a"
        /\ message_types[u] = "url"
        /\ pdf_posts = 1
        /\ pdf_body = "bb" \o "\n\n" \o "a"

\* a text, URL or file submission of user u
SubmissionStep(u) ==
    /\ last'.op \in {"text", "url", "file"}
    /\ \/ \E text \in Texts : handle_text(u, text, FALSE, "2xx", "")
       \/ \E inp \in FetchInputs : handle_text(u, PlainUrl, TRUE, inp[1], inp[2])
       \/ \E inp \in DocumentInputs : handle_document(u, inp[1], inp[2], inp[3])

Idle(u) == u \notin DOMAIN user_states

\* C8: while the user has no session, every text, URL or file submission is
\* rejected and leaves session state, fragment buffer and quota record as they
\* are; only /start opens a session.
C8_IdleRejectsSubmissions ==
    [][\A u \in Users :
          /\ (Idle(u) /\ SubmissionStep(u))
             => /\ last'.outcome = "rejected"
                /\ UNCHANGED <<user_states, user_markdown, user_quota>>
          /\ (Idle(u) /\ ~Idle(u)') => last' = Event("start", u, "ok")]_vars

\* C8 witness: a submission was rejected after a conversion had closed the
\* session.
C8_Witness ==
    \E u \in Users :
        /\ Idle(u)
        /\ last.user = u /\ last.outcome = "rejected"
        /\ log_rows = 1 /\ log_row.success /\ log_row.error_message = ""

\* a URL submission of user u whose fetch fails
FetchFails(u) ==
    /\ last'.op = "url"
    /\ \E outcome \in HttpOutcomes \ {"2xx"} :
          handle_text(u, PlainUrl, TRUE, outcome, "")

\* C9 (as claimed): a URL submission whose fetch fails appends no fragment and
\* leaves session state, fragment buffer, content-origin tag and quota record
\* as they were.
C9_FailedFetchChangesNothing ==
    [][\A u \in Users :
          (Waiting(u) /\ FetchFails(u))
          => UNCHANGED <<user_states, user_markdown, message_types, user_quota>>]_vars

\* C10: /cancel leaves the user without session and without fragment buffer
\* whatever they held; a user without session never has a buffer, and a
\* convert in that state is rejected as having no session and posts nothing.
C10_CancelDiscards ==
    [][\A u \in Users :
          /\ cancel(u) => (Idle(u)' /\ u \notin DOMAIN user_markdown')
          /\ Idle(u)' => u \notin DOMAIN user_markdown'
          /\ (Idle(u) /\ ConvertStep(u))
             => /\ last'.outcome = "no_session"
                /\ UNCHANGED <<log_rows, log_row, pdf_posts, pdf_body, temp_pdfs>>]_vars

\* C10 witness: a convert was rejected for want of a session after the user
\* had typed a fragment and nothing had been converted.
C10_Witness ==
    \E u \in DOMAIN message_types :
        /\ last = Event("convert", u, "no_session")
        /\ message_types[u] = "text"
        /\ Idle(u)
        /\ log_rows = 0

\* C11: /start, in any session state, leaves the user waiting for content
\* with an empty fragment buffer, and a document posted later holds only the
\* contents accepted since that /start.
C11_StartClearsBuffer ==
    [][\A u \in Users :
          /\ start(u) => /\ Waiting(u)'
                         /\ u \in DOMAIN user_markdown'
                         /\ user_markdown'[u] = <<>>
          /\ (last'.op = "start" /\ last'.user = u) => accepted'[u] = <<>>
          /\ (pdf_posts' = pdf_posts + 1 /\ last'.user = u)
             => /\ pdf_body' = JoinL(accepted[u])
                /\ Len(pdf_body') = Len(JoinL(user_markdown[u]))]_vars

\* C11 witness: a /start emptied the buffer of a session that had kept its
\* fragment after an undelivered conversion.
C11_Witness ==
    \E u \in DOMAIN user_markdown :
        /\ last = Event("start", u, "ok")
        /\ Waiting(u)
        /\ user_markdown[u] = <<>>
        /\ log_rows = 1 /\ log_row.success /\ log_row.error_message = ExcText
        /\ pdf_body = "bb"

Premium(u) == u \in DOMAIN user_quota /\ user_quota[u].is_premium

\* C12: a user whose premium flag is set is never refused by check_quota,
\* whatever the two counters hold; process_payment_pseudo sets the flag and a
\* second call changes nothing; no step of any handler clears the flag.
C12_PremiumAlwaysAllowed ==
    [][\A u \in Users :
          /\ (Premium(u) /\ HasFragments(u) /\ ConvertStep(u))
             => last'.outcome \notin {"no_session", "empty", "hourly", "daily"}
          /\ Premium(u)
             => check_quota(reset_quota_if_needed(user_quota, u, now), u,
                            HOURLY_RATE_LIMIT, FREE_DAILY_QUOTA).allowed
          /\ process_payment_pseudo(u)
             => /\ Premium(u)'
                /\ Premium(u) => user_quota' = user_quota
          /\ Premium(u) => Premium(u)']_vars

\* C12 witness: a premium user converted with both counters already at their
\* limits, and the counters went beyond them.
C12_Witness ==
    \E u \in DOMAIN user_quota :
        /\ user_quota[u].is_premium
        /\ last = Event("convert", u, "done")
        /\ user_quota[u].hourly_count > HOURLY_RATE_LIMIT
        /\ user_quota[u].daily_count > FREE_DAILY_QUOTA

\* the four rewrite rules, each applied to the part of the URL it names
ClaimedRawUrl(url) ==
    LET head == <<scheme(url), "://", hostname(url)>>
        parts == split(path(url), "/")
    IN  IF hostname(url) = "github.com" /\ contains(path(url), BlobInPath)
        THEN <<scheme(url), "://", "raw.githubusercontent.com">>
             \o replace(path(url), BlobInPath, <<"/">>)
        ELSE IF hostname(url) = "gist.github.com"
        THEN rstrip(url, "/") \o <<"/", "raw">>
        ELSE IF hostname(url) = "gitlab.com" /\ contains(path(url), BlobInPath)
        THEN head \o replace(path(url), BlobInPath, <<"/", "raw", "/">>)
        ELSE IF /\ hostname(url) = "bitbucket.org"
                /\ contains(path(url), SrcInPath)
                /\ Len(parts) >= 5
        THEN head \o join([parts EXCEPT ![index(parts, <<"src">>) + 1] = <<"raw">>], "/")
        ELSE url

\* user u submits the URL url
UrlStep(u, url) ==
    /\ last'.op = "url"
    /\ \E inp \in FetchInputs : handle_text(u, url, TRUE, inp[1], inp[2])

\* C13 (as claimed): for every URL a user submits, the URL handed to the fetch
\* is the one the four rules give: on github.com with /blob/ in the path only
\* the host replaced and /blob/ removed from the path, on gist.github.com the
\* trailing slashes stripped and /raw appended, on gitlab.com /blob/ replaced
\* by /raw/ in the path, on bitbucket.org with /src/ in a path of at least 5
\* segments the src segment replaced by raw, every other URL unchanged.
C13_RawUrlFollowsRules ==
    [][\A u \in Users, url \in Urls :
          UrlStep(u, url) => last'.request = ClaimedRawUrl(url)]_vars

\* C14 (as claimed): the URL handed to the fetch is already raw:
\* convert_to_raw_url returns it as it is.
C14_RawUrlIsFixedPoint ==
    [][\A u \in Users :
          (last'.op = "url" /\ last'.user = u /\ last' # last)
          => convert_to_raw_url(last'.request) = last'.request]_vars

\* C16 (as claimed): whatever ADMIN_USER_IDS holds, not set and empty
\* included, /stats and /backup refuse a user who is not in the handler's
\* list of administrators.
C16_AdminOnly ==
    [][\A u \in Users, env \in AdminEnvs :
          /\ (admin_stats(u, env) /\ u \notin StatsAdmins(env))
             => last'.outcome = "refused"
          /\ (\E made \in BOOLEAN : admin_backup(u, env, made) /\ u \notin BackupAdmins(env))
             => last'.outcome = "refused"]_vars

\* a /convert of user u during which a Telegram call raises after the
\* temporary file was made
RaisingConvert(u) ==
    /\ last'.op = "convert"
    /\ now' - now \in 0..MaxDelay
    /\ \E inp \in ConvertInputs :
          /\ inp[2] \notin {"none", "loading"}
          /\ convert_to_pdf(u, inp[1], inp[2], now' - now)

\* C15: no temporary PDF file is left on disk once a convert attempt is over,
\* whether the PDF service answered with a PDF, failed, or a Telegram call
\* raised during the delivery.
C15_TempFileRemoved == temp_pdfs = 0

\* C15 witness: a convert whose PDF could not be delivered (reply_document
\* raised) is over and no temporary file is left.
C15_Witness ==
    \E u \in Users :
        /\ last = Event("convert", u, "not_delivered")
        /\ log_rows > 0 /\ log_row.success /\ log_row.error_message = ExcText
        /\ temp_pdfs = 0

\* a fetch or download of user u is outstanding
InFlight(u) ==
    \E i \in DOMAIN pending : pending[i].user = u /\ pending[i].op \in {"fetch", "download"}

\* this step adds a fragment to the buffer of u, or creates the buffer with one
AddsFragment(u) ==
    /\ u \in DOMAIN user_markdown'
    /\ user_markdown'[u] # <<>>
    /\ u \in DOMAIN user_markdown => Len(user_markdown'[u]) > Len(user_markdown[u])

PostOutstanding(u) ==
    \E i \in DOMAIN pending : pending[i].user = u /\ pending[i].op = "post"

C19_OthersServed ==
    \A i \in DOMAIN pending :
        pending[i].op \in {"fetch", "post"}
        => \A v \in Others : ENABLED Handler(start(v))

\* C20 (as claimed): when a Telegram call raises during a convert attempt,
\* after the answer of the PDF service, the attempt leaves the user without
\* session and without fragment buffer, and no temporary file on disk.
C20_ExceptionCleansUp ==
    [][\A u \in Users :
          (HasFragments(u) /\ RaisingConvert(u))
          => /\ Idle(u)'
             /\ u \notin DOMAIN user_markdown'
             /\ temp_pdfs' = 0]_vars

\* C21 (as claimed): every row of the usage log with success set has an empty
\* error text and every row with success unset has an error text, whatever
\* the outcome of the convert attempt that wrote it.
C21_ErrorTextMatchesSuccess ==
    log_rows > 0 => (log_row.success <=> log_row.error_message = "")

\* a URL submission of user u whose fetch is answered 2xx with body
FetchSucceeds(u, body) ==
    /\ last'.op = "url"
    /\ handle_text(u, PlainUrl, TRUE, "2xx", body)

\* C22 (as claimed): a URL submission of a user waiting for content whose
\* fetch is answered 2xx appends the body, empty or not, as one fragment at
\* the end of the buffer.
C22_FetchedBodyAppended ==
    [][\A u \in Users, body \in Bodies :
          (Waiting(u) /\ FetchSucceeds(u, body))
          => /\ u \in DOMAIN user_markdown'
             /\ user_markdown'[u] = Append(user_markdown[u], body)]_vars

\* the counters of user u are within the configured limits
WithinLimits(u) ==
    /\ user_quota[u].hourly_count \in 0..HOURLY_RATE_LIMIT
    /\ user_quota[u].daily_count \in 0..FREE_DAILY_QUOTA

\* a convert attempt of user u that delivers the PDF
Delivers(u) ==
    /\ last'.outcome \in {"done", "delivered_raised"}
    /\ ConvertStep(u)

\* C23: with the events handled one at a time, the hourly counter of a
\* non-premium user is always between 0 and the hourly limit and the daily
\* counter between 0 and the daily limit.  A PDF is delivered only when both
\* counters, after the pending window resets, are below their limits, and the
\* delivery counts one in each window unless the window ends during the POST:
\* no more than the limit are delivered between two resets.
C23_CountersWithinLimits ==
    [][\A u \in Users :
          /\ (u \in DOMAIN user_quota' /\ NonPremium(u)') => WithinLimits(u)'
          /\ (NonPremium(u) /\ Delivers(u))
             => /\ HourlyAfterReset(u) < HOURLY_RATE_LIMIT
                /\ DailyAfterReset(u) < FREE_DAILY_QUOTA
                /\ \/ user_quota'[u].hourly_count = HourlyAfterReset(u) + 1
                   \/ /\ user_quota'[u].hourly_count = 0
                      /\ user_quota'[u].hourly_reset = now'
                /\ \/ user_quota'[u].daily_count = DailyAfterReset(u) + 1
                   \/ /\ user_quota'[u].daily_count = 0
                      /\ user_quota'[u].last_reset = now']_vars

\* C23 witness: two PDFs were delivered and both counters stand at their
\* limits.
C23_Witness ==
    \E u \in DOMAIN user_quota :
        /\ last = Event("convert", u, "done")
        /\ log_rows = 2 /\ log_row.success /\ log_row.error_message = ""
        /\ FREE_DAILY_QUOTA = 2
        /\ user_quota[u].daily_count = FREE_DAILY_QUOTA
        /\ user_quota[u].hourly_count = HOURLY_RATE_LIMIT

\* the step leaves user u, who had a session with fragments, without session
\* and without buffer
ClearsSession(u) ==
    /\ HasFragments(u)
    /\ Idle(u)'
    /\ u \notin DOMAIN user_markdown'

\* C24 (as claimed): a convert attempt increments the quota counters (it has
\* delivered the PDF) if and only if it clears the session, whatever is raised
\* during the attempt.
C24_CountedIffCleared ==
    [][\A u \in Users :
          ConvertStep(u) => (Delivers(u) <=> ClearsSession(u))]_vars

\* the handler of this step is /start, /cancel or a submission of user u
SessionHandlerStep(u) ==
    /\ last'.user = u
    /\ last'.op \in {"start", "cancel", "text", "url", "file"}
    /\ \/ start(u)
       \/ cancel(u)
       \/ handle_text(u, "a", FALSE, "2xx", "")
       \/ \E inp \in FetchInputs : handle_text(u, PlainUrl, TRUE, inp[1], inp[2])
       \/ \E inp \in DocumentInputs : handle_document(u, inp[1], inp[2], inp[3])

\* the counters of user u before the step, 0 for a user without quota record
HourlyCount(u) == IF u \in DOMAIN user_quota THEN user_quota[u].hourly_count ELSE 0
DailyCount(u) == IF u \in DOMAIN user_quota THEN user_quota[u].daily_count ELSE 0

\* C25: /start, /cancel and the text, URL and file submissions leave the
\* daily and the hourly counter of the user as they are, or as the pending
\* window reset leaves them (zero, once the hour or the date has passed); a
\* counter grows only in a convert attempt that delivers the PDF, so a
\* /cancel followed by /start restores no quota.
C25_OnlyConvertCounts ==
    [][\A u \in Users :
          /\ (u \in DOMAIN user_quota' /\ SessionHandlerStep(u))
             => /\ user_quota'[u].hourly_count \in {HourlyCount(u), HourlyAfterReset(u)}
                /\ user_quota'[u].daily_count \in {DailyCount(u), DailyAfterReset(u)}
          /\ (u \in DOMAIN user_quota'
              /\ \/ user_quota'[u].hourly_count > HourlyCount(u)
                 \/ user_quota'[u].daily_count > DailyCount(u))
             => /\ last'.op = "convert"
                /\ last'.outcome \in {"done", "delivered_raised"}]_vars

\* C25 witness: a /start that follows a delivered conversion within the hour
\* and after a URL was fetched: both counters still hold the conversion.
C25_Witness ==
    \E u \in DOMAIN user_quota :
        /\ last = Event("start", u, "ok")
        /\ u \in DOMAIN message_types /\ message_types[u] = "url"
        /\ now < user_quota[u].hourly_reset + OneHour
        /\ user_quota[u].hourly_count = 1
        /\ user_quota[u].daily_count = 1

====
